---- MODULE Spec2Model ----
(***************************************************************************)
(* Model of internal/tally/bucket.go of git-who: the time-bucketed tally   *)
(* (TallyCommitsByDate), the resolution selector (calcResolution) and the  *)
(* merge of two series (TimeBucket.Combine, TimeSeries.Combine).           *)
(*                                                                         *)
(* Time.  A time.Time is an integer number of hours since 1970-01-01 00:00 *)
(* in the local zone (a fixed-offset zone; every commit date is a local    *)
(* time).  A time.Duration is a number of hours.                           *)
(*                                                                         *)
(* Maps.  A Go map is a reference: a bucket's tallies field is an address  *)
(* into heap, and heap[address] is the map's content, a function from the  *)
(* author keys present to their Tally.  Copying a TimeBucket copies the    *)
(* address, not the content.  A Tally's fileset is held by value.          *)
(*                                                                         *)
(* Rank is the only writer of TimeBucket.Tally and TimeBucket.TotalTally;  *)
(* neither TallyCommitsByDate nor Combine calls it, so both fields keep    *)
(* their zero value here and Combine copies them from its receiver.        *)
(*                                                                         *)
(* The stream.  Each pull of the commit iterator yields a commit, an error *)
(* or the end of the stream, chosen freely at the pull.                    *)
(***************************************************************************)
EXTENDS Integers, Sequences, FiniteSets, TLC

\* ------------------------------------------------------------------ bounds

\* Commits the stream of a single call may yield.
MaxCommits == 3

\* Commits the two partial streams of a merge may yield together.
MaxMergeCommits == 4

\* ---------------------------------------------------------------- calendar

\* time.Hour, the unit of this model's durations.
Hour == 1

HoursPerDay == 24

\* Days since 1970-01-01 of the civil date y-m-d (proleptic Gregorian), for
\* 1 <= m <= 12 and any d: a day past the month's end runs into the next month.
DaysFromCivil(y, m, d) ==
    LET yy  == IF m <= 2 THEN y - 1 ELSE y
        era == yy \div 400
        yoe == yy - era * 400
        mp  == IF m > 2 THEN m - 3 ELSE m + 9
        doy == (153 * mp + 2) \div 5 + d - 1
        doe == yoe * 365 + yoe \div 4 - yoe \div 100 + doy
    IN  era * 146097 + doe - 719468

\* The civil date <<year, month, day>> of a day number.
CivilFromDays(z) ==
    LET zz  == z + 719468
        era == zz \div 146097
        doe == zz - era * 146097
        yoe == (doe - doe \div 1460 + doe \div 36524 - doe \div 146096) \div 365
        doy == doe - (365 * yoe + yoe \div 4 - yoe \div 100)
        mp  == (5 * doy + 2) \div 153
        d   == doy - (153 * mp + 2) \div 5 + 1
        m   == IF mp < 10 THEN mp + 3 ELSE mp - 9
        y   == yoe + era * 400 + (IF m <= 2 THEN 1 ELSE 0)
    IN  <<y, m, d>>

\* t.Date(): the year, month and day of a time.
Date(t) == CivilFromDays(t \div HoursPerDay)

\* time.Date(year, month, day, 0, 0, 0, 0, time.Local): midnight of a date,
\* normalising a month of 13 into January of the next year.
TimeDate(y, m, d) ==
    LET yn == y + (m - 1) \div 12
        mn == ((m - 1) % 12) + 1
    IN  DaysFromCivil(yn, mn, d) * HoursPerDay

\* A literal time, for the inputs below.
At(y, m, d, h) == TimeDate(y, m, d) + h * Hour

\* t.Unix(): seconds since the epoch.
Unix(t) == t * 3600

\* -------------------------------------------------------------- resolution

\* calcResolution's locals.
day == Hour * 24
year == day * 365

\* calcResolution with the sixty-day test made inclusive.
calcResolutionInclusive(start, end) ==
    LET duration == end - start
    IN  IF duration > year * 5 THEN "yearly"
        ELSE IF duration >= day * 60 THEN "monthly"
        ELSE "daily"

\* calcResolution: the tier chosen from the span between start and end.
calcResolution(start, end) ==
    LET duration == end - start
    IN  IF duration > year * 5 THEN "yearly"
        ELSE IF duration > day * 60 THEN "monthly"
        ELSE "daily"

\* resolution.apply: truncate a time to the start of its bucket.
apply(res, t) ==
    LET ymd == Date(t)
    IN  CASE res = "yearly"  -> TimeDate(ymd[1], 1, 1)
          [] res = "monthly" -> TimeDate(ymd[1], ymd[2], 1)
          [] res = "daily"   -> TimeDate(ymd[1], ymd[2], ymd[3])

\* resolution.next: the start of the bucket after t's.
next(res, t) ==
    LET ymd == Date(apply(res, t))
    IN  CASE res = "yearly"  -> TimeDate(ymd[1] + 1, 1, 1)
          [] res = "monthly" -> TimeDate(ymd[1], ymd[2] + 1, 1)
          [] res = "daily"   -> TimeDate(ymd[1], ymd[2], ymd[3] + 1)

\* resolution.label: the bucket's name.  Format("2006") is <<year>>,
\* Format("Jan 2006") is <<month, year>>, Format(time.DateOnly) is
\* <<year, month, day>>: the fields the layout prints, in its order.
label(res, t) ==
    LET ymd == Date(apply(res, t))
    IN  CASE res = "yearly"  -> <<ymd[1]>>
          [] res = "monthly" -> <<ymd[2], ymd[1]>>
          [] res = "daily"   -> <<ymd[1], ymd[2], ymd[3]>>

\* ------------------------------------------------------------------ inputs

\* TallyMode (TallyOpts.Mode).
TallyModes == {"CommitMode", "FilesMode", "LinesMode", "LastModifiedMode"}

\* The `end` argument: a bucket boundary, and noon of the same day.
Ends == {At(2024, 3, 1, 0), At(2024, 3, 1, 12)}

\* The mode, the `end` and the commit dates of the calls whose results are
\* merged: a date in the yearly tier and two in the daily tier, one of them
\* before the start of the last yearly bucket and one after it.
MergeModes == {"CommitMode"}
MergeEnds == {At(2024, 1, 2, 12)}
MergeDates == {At(2019, 1, 1, 0), At(2023, 12, 31, 23), At(2024, 1, 2, 0)}

\* Commit dates.  Against the two ends they fall on both sides of the five-year
\* and the sixty-day thresholds, across a year end, on a leap day, on `end`
\* and after it (a negative span).
Dates ==
    { At(2019, 3, 3, 0),     \* 1825 days before the first end
      At(2023, 12, 31, 23),  \* 60 days and an hour before it
      At(2024, 1, 1, 0),     \* 60 days before it
      At(2024, 2, 29, 23),   \* the day before it
      At(2024, 3, 1, 0),     \* the first end itself
      At(2024, 3, 2, 0) }    \* the day after both ends

\* git.FileDiff values.
DiffA == [Path |-> "a.go", LinesAdded |-> 2, LinesRemoved |-> 1]
DiffB == [Path |-> "b.go", LinesAdded |-> 0, LinesRemoved |-> 3]

Authors ==
    { [AuthorName |-> "ann", AuthorEmail |-> "ann@x", FileDiffs |-> <<DiffA>>],
      [AuthorName |-> "bob", AuthorEmail |-> "bob@x", FileDiffs |-> <<DiffA, DiffB>>] }

\* git.Commit values the streams may yield.
CommitsOn(dates) ==
    { [Date |-> d, AuthorName |-> p.AuthorName, AuthorEmail |-> p.AuthorEmail,
       FileDiffs |-> p.FileDiffs] : d \in dates, p \in Authors }

Commits == CommitsOn(Dates)
MergeCommits == CommitsOn(MergeDates)

\* opts.Key: the grouping key of a commit.
Key(commit) == commit.AuthorEmail

\* The error a commit stream yields.
StreamErr == "stream failure"

\* ------------------------------------------------------------- data model

\* The zero FinalTally (TimeBucket.Tally and TimeBucket.TotalTally before Rank).
ZeroFinalTally ==
    [AuthorName |-> "", AuthorEmail |-> "", Commits |-> 0, FileCount |-> 0,
     LinesAdded |-> 0, LinesRemoved |-> 0]

\* map[string]Tally{}: a map with no key.
EmptyMap == [k \in {} |-> 0]

\* m[key] = v on a Go map's content.
MapPut(m, key, v) == [k \in (DOMAIN m) \cup {key} |-> IF k = key THEN v ELSE m[k]]

\* newBucket: a bucket whose tallies map is the fresh map at address addr.
newBucket(name, t, addr) ==
    [Name |-> name, Time |-> t, Tally |-> ZeroFinalTally,
     TotalTally |-> ZeroFinalTally, tallies |-> addr]

\* The nil error, and fmt.Errorf("<context>: %w", err): an error is the chain of
\* its contexts, outermost first, ending in the wrapped error.
NilErr == << >>
Wrap(context, err) == <<context>> \o err
ErrorsNew(text) == <<text>>

\* The deferred wrap of TallyCommitsByDate's named result err.
DeferWrap(err) ==
    IF err # NilErr THEN Wrap("error while tallying commits by date", err) ELSE err

\* ------------------------------------------------------- TallyCommitsByDate

\* initBuckets with the loop test made on the next bucket's start: the bucket
\* that holds `end` is never built.
RECURSIVE initBucketsShort(_, _, _, _, _)
initBucketsShort(res, t, endT, bs, hp) ==
    IF endT > next(res, t)
    THEN initBucketsShort(res, next(res, t), endT,
                          Append(bs, newBucket(label(res, t), apply(res, t), Len(hp) + 1)),
                          Append(hp, EmptyMap))
    ELSE [buckets |-> bs, heap |-> hp]

\* The loop that builds the buckets: from t while end.After(t), one bucket each,
\* every bucket with a fresh map.  The result is the slice and the heap.
RECURSIVE initBuckets(_, _, _, _, _)
initBuckets(res, t, endT, bs, hp) ==
    IF endT > t
    THEN initBuckets(res, next(res, t), endT,
                     Append(bs, newBucket(label(res, t), apply(res, t), Len(hp) + 1)),
                     Append(hp, EmptyMap))
    ELSE [buckets |-> bs, heap |-> hp]

\* The inner loop `for !bucketedCommitTime.Equal(bucket.Time)`, entered with
\* bucket = buckets[j]: the index it stops at, or Len(bs) when buckets[i] runs
\* past the end of the slice (indices count from 0, as in the source).
RECURSIVE skipLoop(_, _, _)
skipLoop(bs, j, t) ==
    IF bs[j + 1].Time = t THEN j
    ELSE IF j + 1 >= Len(bs) THEN Len(bs)
    ELSE skipLoop(bs, j + 1, t)

\* The cursor after `bucket := buckets[i]` and the skip of empty buckets; a
\* result of Len(bs) or more is an index out of range.
seek(bs, j, t) ==
    IF j >= Len(bs) THEN j
    ELSE IF t > bs[j + 1].Time THEN skipLoop(bs, j, t)
    ELSE j

\* One diff folded into a tally.
RECURSIVE foldDiffs(_, _)
foldDiffs(tally, diffs) ==
    IF diffs = << >> THEN tally
    ELSE foldDiffs([tally EXCEPT !.added = @ + Head(diffs).LinesAdded,
                                 !.removed = @ + Head(diffs).LinesRemoved,
                                 !.fileset = @ \cup {Head(diffs).Path}],
                   Tail(diffs))

\* The tally of commit's author in map m after the commit is folded in.
foldCommit(m, commit) ==
    LET key == Key(commit)
        tally == IF key \in DOMAIN m THEN m[key]
                 ELSE [name |-> commit.AuthorName, email |-> commit.AuthorEmail,
                       numTallied |-> 0, added |-> 0, removed |-> 0, fileset |-> {}]
    IN  MapPut(m, key, foldDiffs([tally EXCEPT !.numTallied = @ + 1], commit.FileDiffs))

\* Stable merge of two commit streams by date: the full stream of a partition.
RECURSIVE Merge(_, _)
Merge(s1, s2) ==
    IF s1 = << >> THEN s2
    ELSE IF s2 = << >> THEN s1
    ELSE IF Head(s1).Date <= Head(s2).Date THEN <<Head(s1)>> \o Merge(Tail(s1), s2)
    ELSE <<Head(s2)>> \o Merge(s1, Tail(s2))

\* ------------------------------------------------------------------ Combine

\* Tally.Combine: the sum of two tallies of one author key.
TallyCombine(a, b) ==
    [name |-> a.name, email |-> a.email, numTallied |-> a.numTallied + b.numTallied,
     added |-> a.added + b.added, removed |-> a.removed + b.removed,
     fileset |-> a.fileset \cup b.fileset]

\* The content of a's map after TimeBucket.Combine's loop over b's map has
\* written into it (ma and mb are the same content when a and b share a map).
mergedTallies(ma, mb) ==
    [key \in (DOMAIN ma) \cup (DOMAIN mb) |->
        IF key \in DOMAIN mb
        THEN IF key \in DOMAIN ma THEN TallyCombine(ma[key], mb[key]) ELSE mb[key]
        ELSE ma[key]]

\* TimeBucket.Combine on heap hp.  `merged := a` copies a's fields and the address
\* of a's map, so the loop's writes to merged.tallies are writes to a's map.
TimeBucketCombine(a, b, hp) ==
    IF a.Name # b.Name \/ a.Time # b.Time
    THEN [panicked |-> TRUE, bucket |-> a, heap |-> hp]
    ELSE [panicked |-> FALSE, bucket |-> a,
          heap |-> [hp EXCEPT ![a.tallies] = mergedTallies(hp[a.tallies], hp[b.tallies])]]

\* TimeSeries.Combine's first loop: the buckets of a by Unix time.
RECURSIVE indexBuckets(_, _)
indexBuckets(a, acc) ==
    IF a = << >> THEN acc
    ELSE indexBuckets(Tail(a), MapPut(acc, Unix(Head(a).Time), Head(a)))

\* TimeSeries.Combine's second loop: each bucket of b combined into the bucket of
\* its time, or added.
RECURSIVE combineBuckets(_, _, _)
combineBuckets(b, acc, hp) ==
    IF b = << >> THEN [panicked |-> FALSE, buckets |-> acc, heap |-> hp]
    ELSE LET bucket == Head(b)
             key == Unix(bucket.Time)
         IN  IF key \in DOMAIN acc
             THEN LET c == TimeBucketCombine(acc[key], bucket, hp)
                  IN  IF c.panicked
                      THEN [panicked |-> TRUE, buckets |-> acc, heap |-> hp]
                      ELSE combineBuckets(Tail(b), MapPut(acc, key, c.bucket), c.heap)
             ELSE combineBuckets(Tail(b), MapPut(acc, key, bucket), hp)

\* sortedBuckets with the keys in descending order.
RECURSIVE sortedBucketsDescending(_)
sortedBucketsDescending(acc) ==
    IF DOMAIN acc = {} THEN << >>
    ELSE LET key == CHOOSE k \in DOMAIN acc : \A other \in DOMAIN acc : k >= other
         IN  <<acc[key]>> \o sortedBucketsDescending([k \in (DOMAIN acc) \ {key} |-> acc[k]])

\* slices.Sorted(maps.Keys(buckets)) and the loop that follows it: the buckets
\* of the map in ascending order of key.
RECURSIVE sortedBuckets(_)
sortedBuckets(acc) ==
    IF DOMAIN acc = {} THEN << >>
    ELSE LET key == CHOOSE k \in DOMAIN acc : \A other \in DOMAIN acc : k <= other
         IN  <<acc[key]>> \o sortedBuckets([k \in (DOMAIN acc) \ {key} |-> acc[k]])

\* TimeSeries.Combine on heap hp: the series returned and the heap after it.
TimeSeriesCombine(a, b, hp) ==
    LET c == combineBuckets(b, indexBuckets(a, EmptyMap), hp)
    IN  [made |-> ~c.panicked, panicked |-> c.panicked,
         buckets |-> IF c.panicked THEN << >> ELSE sortedBuckets(c.buckets),
         heap |-> c.heap]

VARIABLES
    plan,        \* what the caller does: "single" is one call of
                 \* TallyCommitsByDate, "merge" is three calls and Combine
    mode,        \* opts.Mode, the same for every call
    end,         \* the end argument, the same for every call
    call,        \* the call of TallyCommitsByDate under way: 1 and 2 tally two
                 \* partial streams, 3 tallies their merge
    pc,          \* "start", "tally", then the combine steps, or "panic"
    pulls,       \* calls of next() the call under way has made
    resolution,  \* the call's resolution, "none" before the first commit
    buckets,     \* the call's buckets slice
    i,           \* the call's cursor
    last,        \* what the latest pass of the tally loop did
    heap,        \* the content of every map allocated
    hist,        \* the commits each call's stream has yielded
    ret,         \* what each call returned
    sx,          \* results of TimeSeries.Combine
    sy,
    heap0        \* the heap before the latest Combine

vars == <<plan, mode, end, call, pc, pulls, resolution, buckets, i, last, heap, hist,
          ret, sx, sy, heap0>>

NoRet == [returned |-> FALSE, isNil |-> FALSE, buckets |-> << >>, err |-> NilErr,
          resolution |-> "none", pulls |-> 0]

\* last.kind is "fold" (a commit was folded into the map at address addr, with the
\* cursor at i0 before the seek and t the commit's truncated time), "panic" (the
\* index ran out of range), "error" (the pull yielded an error) or "none".
NoLast == [kind |-> "none", i0 |-> 0, t |-> 0, addr |-> 0]

NoSeries == [made |-> FALSE, panicked |-> FALSE, buckets |-> << >>]

Start ==
    /\ call = 1
    /\ pc = "start"
    /\ pulls = 0
    /\ resolution = "none"
    /\ buckets = << >>
    /\ i = 0
    /\ last = NoLast
    /\ heap = << >>
    /\ hist = [c \in 1..3 |-> << >>]
    /\ ret = [c \in 1..3 |-> NoRet]
    /\ sx = NoSeries
    /\ sy = NoSeries
    /\ heap0 = << >>

\* One call, with any mode and either end.
Init ==
    /\ plan = "single"
    /\ mode \in TallyModes
    /\ end \in Ends
    /\ Start

\* Two calls on the two parts of a commit set, a third on the whole set, and the
\* merges of the results.
InitMerge ==
    /\ plan = "merge"
    /\ mode \in MergeModes
    /\ end \in MergeEnds
    /\ Start

\* The commits the streams of the plan draw from.
Pool == IF plan = "merge" THEN MergeCommits ELSE Commits

\* The stream of the call under way: what its next pull may yield.
CanYieldCommit(commit) ==
    IF call = 3
    THEN LET s == Merge(hist[1], hist[2])
         IN  Len(hist[3]) < Len(s) /\ commit = s[Len(hist[3]) + 1]
    ELSE IF plan = "merge"
    THEN Len(hist[1]) + Len(hist[2]) < MaxMergeCommits
    ELSE Len(hist[1]) < MaxCommits

CanYieldError == call # 3

CanYieldEnd == call # 3 \/ Len(hist[3]) = Len(Merge(hist[1], hist[2]))

\* `return bs, err` (isNil: the slice returned is nil): the deferred wrap runs.
\* A caller that merges makes its next call when this one returned no error.
Return(bs, isNil, err, res, n) ==
    /\ ret' = [ret EXCEPT ![call] =
                  [returned |-> TRUE, isNil |-> isNil, buckets |-> bs,
                   err |-> DeferWrap(err), resolution |-> res, pulls |-> n]]
    /\ call' = IF plan = "merge" /\ call < 3 /\ err = NilErr THEN call + 1 ELSE call
    /\ pc' = IF plan = "merge" /\ call < 3 /\ err = NilErr THEN "start" ELSE "returned"
    /\ pulls' = 0
    /\ resolution' = "none"
    /\ buckets' = << >>
    /\ i' = 0

\* StartLastModified with the mode tested after the first pull, where the
\* slice is no longer nil.
StartLastModifiedLate ==
    /\ pc = "start"
    /\ mode = "LastModifiedMode"
    /\ Return(<< >>, FALSE, ErrorsNew("Last modified mode not implemented"), "none",
              pulls + 1)
    /\ last' = NoLast
    /\ UNCHANGED <<plan, mode, end, heap, hist, sx, sy, heap0>>

\* opts.Mode == LastModifiedMode: an error and a nil slice, nothing pulled.
StartLastModified ==
    /\ pc = "start"
    /\ mode = "LastModifiedMode"
    /\ Return(<< >>, TRUE, ErrorsNew("Last modified mode not implemented"), "none", pulls)
    /\ last' = NoLast
    /\ UNCHANGED <<plan, mode, end, heap, hist, sx, sy, heap0>>

\* The first pull yields an error.
StartError ==
    /\ pc = "start"
    /\ mode # "LastModifiedMode"
    /\ CanYieldError
    /\ Return(<< >>, FALSE, ErrorsNew(StreamErr), "none", pulls + 1)
    /\ last' = [NoLast EXCEPT !.kind = "error"]
    /\ UNCHANGED <<plan, mode, end, heap, hist, sx, sy, heap0>>

\* The first pull finds the stream empty.
StartEmpty ==
    /\ pc = "start"
    /\ mode # "LastModifiedMode"
    /\ CanYieldEnd
    /\ Return(<< >>, FALSE, NilErr, "none", pulls + 1)
    /\ last' = NoLast
    /\ UNCHANGED <<plan, mode, end, heap, hist, sx, sy, heap0>>

\* The first pull yields a commit: the resolution is chosen from it, the buckets
\* are built, and the tally loop starts at cursor 0.
StartCommit ==
    /\ pc = "start"
    /\ mode # "LastModifiedMode"
    /\ \E firstCommit \in Pool :
          /\ CanYieldCommit(firstCommit)
          /\ LET res == calcResolution(firstCommit.Date, end)
                 built == initBuckets(res, apply(res, firstCommit.Date), end, << >>, heap)
             IN  /\ resolution' = res
                 /\ buckets' = built.buckets
                 /\ heap' = built.heap
          /\ hist' = [hist EXCEPT ![call] = Append(@, firstCommit)]
    /\ pulls' = pulls + 1
    /\ i' = 0
    /\ last' = NoLast
    /\ pc' = "tally"
    /\ UNCHANGED <<plan, mode, end, call, ret, sx, sy, heap0>>

\* A pull in the tally loop yields an error.
StepError ==
    /\ pc = "tally"
    /\ CanYieldError
    /\ Return(buckets, FALSE, Wrap("error iterating commits", ErrorsNew(StreamErr)),
              resolution, pulls + 1)
    /\ last' = [NoLast EXCEPT !.kind = "error"]
    /\ UNCHANGED <<plan, mode, end, heap, hist, sx, sy, heap0>>

\* A pull in the tally loop finds the stream exhausted.
StepEnd ==
    /\ pc = "tally"
    /\ CanYieldEnd
    /\ Return(buckets, FALSE, NilErr, resolution, pulls + 1)
    /\ UNCHANGED <<plan, mode, end, last, heap, hist, sx, sy, heap0>>

\* A pull in the tally loop yields a commit: the cursor seeks the commit's
\* bucket, and the commit is folded into the bucket at the cursor, or the index
\* runs out of range and the program panics.
StepCommit ==
    /\ pc = "tally"
    /\ \E commit \in Pool :
          /\ CanYieldCommit(commit)
          /\ hist' = [hist EXCEPT ![call] = Append(@, commit)]
          /\ LET bucketedCommitTime == apply(resolution, commit.Date)
                 j == seek(buckets, i, bucketedCommitTime)
             IN  IF j >= Len(buckets)
                 THEN /\ pc' = "panic"
                      /\ i' = j
                      /\ last' = [kind |-> "panic", i0 |-> i, t |-> bucketedCommitTime,
                                  addr |-> 0]
                      /\ heap' = heap
                 ELSE /\ pc' = "tally"
                      /\ i' = j
                      /\ last' = [kind |-> "fold", i0 |-> i, t |-> bucketedCommitTime,
                                  addr |-> buckets[j + 1].tallies]
                      /\ heap' = [heap EXCEPT ![buckets[j + 1].tallies] =
                                     foldCommit(@, commit)]
    /\ pulls' = pulls + 1
    /\ UNCHANGED <<plan, mode, end, call, resolution, buckets, ret, sx, sy, heap0>>

\* The caller's merges.  After the three calls it computes a.Combine(b), and then
\* either b.Combine(a), or a.Combine(b).Combine(c) and a.Combine(b.Combine(c)),
\* for a, b, c the series of calls 1, 2, 3.
CombineInto(a, b, intoX, to) ==
    LET c == TimeSeriesCombine(a, b, heap)
        s == [made |-> c.made, panicked |-> c.panicked, buckets |-> c.buckets]
    IN  /\ heap0' = heap
        /\ heap' = c.heap
        /\ sx' = IF intoX THEN s ELSE sx
        /\ sy' = IF intoX THEN sy ELSE s
        /\ pc' = IF c.panicked THEN "panic" ELSE to
        /\ UNCHANGED <<plan, mode, end, call, pulls, resolution, buckets, i, last,
                       hist, ret>>

CombineAB ==
    /\ pc = "returned"
    /\ plan = "merge"
    /\ \A c \in 1..3 : ret[c].returned /\ ret[c].err = NilErr
    /\ CombineInto(ret[1].buckets, ret[2].buckets, TRUE, "ab")

CombineBA ==
    /\ pc = "ab"
    /\ CombineInto(ret[2].buckets, ret[1].buckets, FALSE, "ba")

CombineAB_C ==
    /\ pc = "ab"
    /\ CombineInto(sx.buckets, ret[3].buckets, TRUE, "ab_c")

CombineBC ==
    /\ pc = "ab_c"
    /\ CombineInto(ret[2].buckets, ret[3].buckets, FALSE, "bc")

CombineA_BC ==
    /\ pc = "bc"
    /\ CombineInto(ret[1].buckets, sy.buckets, FALSE, "a_bc")

Next ==
    \/ StartLastModified
    \/ StartError
    \/ StartEmpty
    \/ StartCommit
    \/ StepError
    \/ StepEnd
    \/ StepCommit

NextMerge ==
    \/ StartError
    \/ StartEmpty
    \/ StartCommit
    \/ StepError
    \/ StepEnd
    \/ StepCommit
    \/ CombineAB
    \/ CombineBA
    \/ CombineAB_C
    \/ CombineBC
    \/ CombineA_BC

Spec == Init /\ [][Next]_vars

SpecMerge == InitMerge /\ [][NextMerge]_vars

\* ------------------------------------------------------------------ claims

Tiers == {"yearly", "monthly", "daily"}

\* The commits of a stream are in non-decreasing order of date.
Ordered(s) == \A k \in 1..(Len(s) - 1) : s[k].Date <= s[k + 1].Date

\* Every commit of a stream is dated strictly before `end`.
AllBefore(s, endT) == \A k \in 1..Len(s) : s[k].Date < endT

\* The sum of numTallied over a map, and over the maps of a series.
RECURSIVE mapTallied(_)
mapTallied(m) ==
    IF DOMAIN m = {} THEN 0
    ELSE LET key == CHOOSE k \in DOMAIN m : TRUE
         IN  m[key].numTallied + mapTallied([k \in (DOMAIN m) \ {key} |-> m[k]])

RECURSIVE seriesTallied(_, _)
seriesTallied(bs, hp) ==
    IF bs = << >> THEN 0
    ELSE mapTallied(hp[Head(bs).tallies]) + seriesTallied(Tail(bs), hp)

\* What a series exposes: every bucket's fields, with the content of its map.
View(bs, hp) ==
    [k \in 1..Len(bs) |->
        [Name |-> bs[k].Name, Time |-> bs[k].Time, Tally |-> bs[k].Tally,
         TotalTally |-> bs[k].TotalTally, tallies |-> hp[bs[k].tallies]]]

\* t is the start of a bucket of tier res.
OnGrid(res, t) ==
    /\ t % 24 = 0
    /\ res = "yearly" => Date(t)[2] = 1 /\ Date(t)[3] = 1
    /\ res = "monthly" => Date(t)[3] = 1

\* t0 is the start of the bucket of tier res that holds t.
InBucket(res, t0, t) ==
    /\ OnGrid(res, t0)
    /\ Date(t0)[1] = Date(t)[1]
    /\ res # "yearly" => Date(t0)[2] = Date(t)[2]
    /\ res = "daily" => Date(t0)[3] = Date(t)[3]

\* t2 is the start of the bucket that follows the bucket starting at t1.
Follows(res, t1, t2) ==
    CASE res = "yearly"  -> Date(t2)[1] = Date(t1)[1] + 1
      [] res = "monthly" -> Date(t2)[1] * 12 + Date(t2)[2] = Date(t1)[1] * 12 + Date(t1)[2] + 1
      [] res = "daily"   -> t2 = t1 + 24

\* The buckets of bs are the consecutive buckets of tier res, in ascending order.
ContiguousAt(bs, res) ==
    /\ \A k \in 1..Len(bs) : OnGrid(res, bs[k].Time)
    /\ \A k \in 1..(Len(bs) - 1) :
          bs[k].Time < bs[k + 1].Time /\ Follows(res, bs[k].Time, bs[k + 1].Time)

Contiguous(bs) == \E res \in Tiers : ContiguousAt(bs, res)

\* The call under way has returned.
Returned == pc = "returned" /\ ret[call].returned

\* C1: a call in a mode other than LastModifiedMode, on a non-empty stream in
\* non-decreasing order of date whose commits are all dated before `end`, returns
\* buckets whose numTallied sum to the number of commits the stream yielded.
C1_EveryCommitTallied ==
    (/\ Returned
     /\ mode # "LastModifiedMode"
     /\ ret[call].err = NilErr
     /\ hist[call] # << >>
     /\ Ordered(hist[call])
     /\ AllBefore(hist[call], end))
    => seriesTallied(ret[call].buckets, heap) = Len(hist[call])

\* C2: for ordered parts S1 and S2 of a commit set, the series of call 1 (on S1)
\* combined with the series of call 2 (on S2) is the series of call 3 (on the
\* merge of S1 and S2): the same bucket times, names and per-author tallies.
C2_PartitionMerge ==
    (/\ pc = "ab"
     /\ Ordered(hist[1])
     /\ Ordered(hist[2])
     /\ hist[3] = Merge(hist[1], hist[2]))
    => View(sx.buckets, heap) = View(ret[3].buckets, heap)

\* C3: once the caller has both a.Combine(b) and b.Combine(a), they expose the
\* same buckets; and once it has both a.Combine(b).Combine(c) and
\* a.Combine(b.Combine(c)), those expose the same buckets.
C3_CommutativeAssociative ==
    /\ pc = "ba" => View(sx.buckets, heap) = View(sy.buckets, heap)
    /\ pc = "a_bc" => View(sx.buckets, heap) = View(sy.buckets, heap)

\* Calls c and d chose the same resolution, or one of them built no bucket.
SameResolution(c, d) ==
    \/ ret[c].resolution = ret[d].resolution
    \/ ret[c].buckets = << >>
    \/ ret[d].buckets = << >>

\* The buckets every call has built are contiguous.
TallyContiguous ==
    /\ \A c \in 1..3 : ret[c].returned => Contiguous(ret[c].buckets)
    /\ pc = "tally" => Contiguous(buckets)

\* C4 as stated: the buckets of every call, and of every Combine of the series
\* two calls returned (for the one `end`), are in strictly ascending order of
\* Time, one per interval of a single resolution, with no gap.
C4_AnySeriesContiguous ==
    /\ TallyContiguous
    /\ pc = "ab" => Contiguous(sx.buckets)
    /\ pc = "ba" => Contiguous(sy.buckets)
    /\ pc = "bc" => Contiguous(sy.buckets)

\* C4 as amended: the same, for every Combine of the series of two calls that
\* chose the same resolution (or of which one built no bucket).
C4_SameResolutionContiguous ==
    /\ TallyContiguous
    /\ (pc = "ab" /\ SameResolution(1, 2)) => Contiguous(sx.buckets)
    /\ (pc = "ba" /\ SameResolution(2, 1)) => Contiguous(sy.buckets)
    /\ (pc = "bc" /\ SameResolution(2, 3)) => Contiguous(sy.buckets)

\* Two calls that both chose the daily tier and started on different days have
\* been combined into a series longer than the first call's.
C4_Witness ==
    /\ pc = "ab"
    /\ ret[1].resolution = "daily"
    /\ ret[2].resolution = "daily"
    /\ Len(sx.buckets) > Len(ret[1].buckets)
    /\ Len(ret[1].buckets) > 0

\* C5: when a pull yields an error the call returns without another pull, with
\* an error that wraps the stream's in the context "error iterating commits",
\* and with buckets into which every commit pulled before is folded.
C5_StreamErrorWrapped ==
    last.kind = "error" =>
        /\ Returned
        /\ ret[call].pulls = Len(hist[call]) + 1
        /\ ret[call].err # NilErr
        /\ ret[call].err[Len(ret[call].err)] = StreamErr
        /\ \E k \in 1..Len(ret[call].err) : ret[call].err[k] = "error iterating commits"
        /\ seriesTallied(ret[call].buckets, heap) = Len(hist[call])

\* C6: in LastModifiedMode the call pulls nothing and builds nothing, and returns
\* an error and a nil slice.
C6_LastModifiedFails ==
    mode = "LastModifiedMode" =>
        /\ pc \in {"start", "returned"}
        /\ pulls = 0
        /\ hist[call] = << >>
        /\ heap = << >>
        /\ Returned =>
              /\ ret[call].isNil
              /\ ret[call].buckets = << >>
              /\ ret[call].err # NilErr
              /\ ret[call].pulls = 0

C6_Witness == mode = "LastModifiedMode" /\ Returned

\* The tier of a span of hours: yearly above 5 * 365 days, monthly above 60
\* days, daily otherwise.
SpanTier(span) ==
    IF span > 5 * 365 * 24 THEN "yearly"
    ELSE IF span > 60 * 24 THEN "monthly"
    ELSE "daily"

\* C7: the resolution of a call is the tier of the span from its first commit to
\* `end`, and every bucket the call builds, and the truncated time of every
\* commit it places, is a bucket start of that tier, consecutive buckets being
\* consecutive intervals of it.
C7_ResolutionBySpan ==
    /\ pc \in {"tally", "panic"} =>
          /\ resolution = SpanTier(end - hist[call][1].Date)
          /\ ContiguousAt(buckets, resolution)
          /\ \A k \in 1..Len(buckets) :
                buckets[k].Name = label(resolution, buckets[k].Time)
          /\ last.kind \in {"fold", "panic"} =>
                InBucket(resolution, last.t, hist[call][Len(hist[call])].Date)
    /\ (Returned /\ hist[call] # << >>) =>
          /\ ret[call].resolution = SpanTier(end - hist[call][1].Date)
          /\ ContiguousAt(ret[call].buckets, ret[call].resolution)

\* The first commit is exactly 5 * 365 days before `end` (monthly, not yearly)
\* and a later commit has been folded.
C7_Witness ==
    /\ pc = "tally"
    /\ end - hist[call][1].Date = 5 * 365 * 24
    /\ resolution = "monthly"
    /\ last.kind = "fold"

\* The bucket whose map the latest commit was folded into.
FoldedBucket == CHOOSE k \in 1..Len(buckets) : buckets[k].tallies = last.addr

\* C8: out-of-order input is never silently mis-bucketed.  A commit is folded
\* only into the bucket whose Time is its truncated time, and a commit whose
\* truncated time is earlier than the Time of the bucket at the cursor ends the
\* call in a panic.
C8_NeverMisbucketed ==
    /\ (pc = "tally" /\ last.kind = "fold") => buckets[FoldedBucket].Time = last.t
    /\ (pc \in {"tally", "panic"} /\ last.kind \in {"fold", "panic"}
        /\ last.i0 < Len(buckets) /\ last.t < buckets[last.i0 + 1].Time)
       => pc = "panic"

\* C9: a Combine leaves the maps of the buckets of its two operands as they
\* were: after a.Combine(b), and after b.Combine(a), every map of a bucket of a
\* or of b holds what it held before the call.
C9_OperandsUnchanged ==
    pc \in {"ab", "ba"} =>
        \A c \in 1..2 : \A k \in 1..Len(ret[c].buckets) :
            heap[ret[c].buckets[k].tallies] = heap0[ret[c].buckets[k].tallies]

\* C10: on a stream in non-decreasing order of date whose commits are all dated
\* strictly before `end`, the call does not panic, the cursor is an index of the
\* slice, it does not move backwards, and after each commit it is at the bucket
\* whose Time is the commit's truncated time.
C10_CursorInBounds ==
    (Ordered(hist[call]) /\ AllBefore(hist[call], end)) =>
        /\ pc # "panic"
        /\ pc = "tally" =>
              /\ 0 <= i
              /\ i < Len(buckets)
              /\ last.kind = "fold" =>
                    /\ last.i0 <= i
                    /\ buckets[i + 1].Time = last.t

\* On such a stream the cursor has skipped over buckets to the last one.
C10_Witness ==
    /\ Ordered(hist[call])
    /\ AllBefore(hist[call], end)
    /\ pc = "tally"
    /\ last.kind = "fold"
    /\ i > last.i0 + 1
    /\ i = Len(buckets) - 1
====
